---------------------------- MODULE Spec2Model ----------------------------
(***************************************************************************)
(* Model of ym-bot: the Yandex Music catalog client (search, metadata,     *)
(* download-URL resolution, file retrieval), the music service that        *)
(* sequences them, and the Telegram callback handler that owns the         *)
(* temporary download directory.                                           *)
(*                                                                         *)
(* Text that the code inspects character by character (query, title,       *)
(* artist names, codec labels, file names) is a sequence of one-character  *)
(* strings.  Text that the code only copies or concatenates (ids, URLs,    *)
(* XML fields) is a TLA+ string.  A filesystem path is the sequence of its *)
(* components under the root, each component a character sequence.         *)
(***************************************************************************)
EXTENDS Integers, Sequences, FiniteSets, TLC

\* ------------------------------------------------------------------ bounds

\* Largest limit and offset a caller passes to SearchTracks.
MaxLimit == 3
MaxOffset == 4
\* Largest number of entries in one remote search page.
MaxPage == 11
\* Largest number of candidates in a download-info listing.
MaxCands == 3
\* Time is counted in seconds; the clock advances by at most TickSeconds at
\* a time, up to MaxTime.
TickSeconds == 30
MaxTime == 120

\* ------------------------------------------------------- program constants

defaultLimit == 10
StatusOK == 200
callbackPrefix == "download:"
apiBase == "https://api.music.yandex.net"
\* handleCallback: context.WithTimeout(ctx, 90*time.Second)
callbackTimeout == 90
\* DownloadTrack: context.WithTimeout(ctx, 60*time.Second)
downloadTimeout == 60

\* ------------------------------------------------------------ text helpers

Min(a, b) == IF a <= b THEN a ELSE b

\* ---------------------------------------------------------------- contexts

\* The deadline of a context that has none: later than the clock ever shows
\* and than any deadline derived while it runs.
NoDeadline == MaxTime + callbackTimeout + downloadTimeout + 1

\* A buggy derivation that ignores the parent's deadline.
WithTimeoutDetached(parent, t, d) == t + d

\* context.WithTimeout(parent, d) at time t: the deadline of the derived
\* context is the earlier of the parent's and t + d.
WithTimeout(parent, t, d) == Min(parent, t + d)

\* unicode.IsSpace on the characters of the model's alphabet.
IsSpace(c) == c \in {" ", "\t", "\n"}

RECURSIVE TrimLeft(_)
TrimLeft(s) ==
    IF s # <<>> /\ IsSpace(Head(s)) THEN TrimLeft(Tail(s)) ELSE s

RECURSIVE TrimRight(_)
TrimRight(s) ==
    IF s # <<>> /\ IsSpace(s[Len(s)]) THEN TrimRight(SubSeq(s, 1, Len(s) - 1)) ELSE s

\* strings.TrimSpace
TrimSpace(s) == TrimRight(TrimLeft(s))

\* Simple case folding of one character (the letters the model uses).
Fold(c) ==
    CASE c = "M" -> "m"
      [] c = "P" -> "p"
      [] c = "A" -> "a"
      [] c = "C" -> "c"
      [] OTHER -> c

\* strings.EqualFold
EqualFold(s, t) ==
    /\ Len(s) = Len(t)
    /\ \A i \in 1..Len(s) : Fold(s[i]) = Fold(t[i])

\* strings.Join over character sequences.
RECURSIVE Join(_, _)
Join(elems, sep) ==
    IF elems = <<>> THEN <<>>
    ELSE IF Len(elems) = 1 THEN elems[1]
    ELSE elems[1] \o sep \o Join(Tail(elems), sep)

\* strings.ReplaceAll(s, "%%", "200x200"): leftmost non-overlapping matches.
RECURSIVE ReplaceSize(_)
ReplaceSize(s) ==
    IF s = <<>> THEN <<>>
    ELSE IF Len(s) >= 2 /\ s[1] = "%" /\ s[2] = "%"
         THEN <<"2", "0", "0", "x", "2", "0", "0">> \o ReplaceSize(SubSeq(s, 3, Len(s)))
         ELSE <<Head(s)>> \o ReplaceSize(Tail(s))

\* --------------------------------------------------------------- wire DTOs

\* trackDTO: the fields mapTrack reads.  id is json.Number, "" when the
\* payload has no id (or a null one).
DTO(id, title, ms, artists, albums, cover) ==
    [id |-> id, title |-> title, durationMs |-> ms, artists |-> artists,
     albums |-> albums, coverUri |-> cover]

\* albumListDTO.Title
AlbumTitle(a) == IF Len(a) = 0 THEN <<>> ELSE a[1]

\* The empty Track{} returned beside an error.
NoTrack ==
    [ID |-> "", Title |-> <<>>, Artists |-> <<>>, DurationSeconds |-> 0,
     CoverURL |-> <<>>, AlbumTitle |-> <<>>]

RECURSIVE NonEmptyNames(_)
NonEmptyNames(as) ==
    IF as = <<>> THEN <<>>
    ELSE IF Head(as) # <<>> THEN <<Head(as)>> \o NonEmptyNames(Tail(as))
    ELSE NonEmptyNames(Tail(as))

\* mapTrack converts the API model to the internal Track.
mapTrack(t) ==
    [ID |-> t.id, Title |-> t.title, Artists |-> NonEmptyNames(t.artists),
     DurationSeconds |-> t.durationMs \div 1000,
     CoverURL |-> IF t.coverUri # <<>>
                  THEN <<"h", "t", "t", "p", "s", ":", "/", "/">> \o ReplaceSize(t.coverUri)
                  ELSE <<>>,
     AlbumTitle |-> AlbumTitle(t.albums)]

\* Track.ArtistsString
ArtistsString(t) ==
    IF Len(t.Artists) = 0 THEN <<>> ELSE Join(t.Artists, <<",", " ">>)


\* ------------------------------------------------------------ HTTP exchange

\* An outbound request: the URL, and for /search the text and page parameters.
Request(url, text, page) == [url |-> url, text |-> text, page |-> page]

\* What HTTPClient.Do gives back for a JSON endpoint: a transport error
\* (network failure, deadline, cancellation), or a status and a body that
\* either decodes into the expected payload or does not.
JSONResponse(neterr, status, decodes, result) ==
    [neterr |-> neterr, status |-> status, decodes |-> decodes, result |-> result]

\* ------------------------------------------------------------ SearchTracks

\* The loop of SearchTracks: map the page's entries until i >= limit.
RECURSIVE takeTracks(_, _, _)
takeTracks(results, i, limit) ==
    IF i > Len(results) \/ i - 1 >= limit THEN <<>>
    ELSE <<mapTrack(results[i])>> \o takeTracks(results, i + 1, limit)

\* A buggy page computation without the offset clamp and limit default.
searchPageRaw(limit, offset) == IF limit = 0 THEN 0 ELSE offset \div limit

searchLimit(limit) == IF limit <= 0 THEN defaultLimit ELSE limit
searchOffset(offset) == IF offset < 0 THEN 0 ELSE offset
searchPage(limit, offset) == searchOffset(offset) \div searchLimit(limit)

\* APIClient.SearchTracks: err is "" for nil; requests are those it issued.
SearchTracks(query, limit, offset, resp) ==
    IF TrimSpace(query) = <<>>
    THEN [err |-> "query is empty", tracks |-> <<>>, requests |-> <<>>]
    ELSE LET req == Request(apiBase \o "/search", query, searchPage(limit, offset))
         IN IF resp.neterr
            THEN [err |-> "transport", tracks |-> <<>>, requests |-> <<req>>]
            ELSE IF resp.status # StatusOK
            THEN [err |-> "search failed", tracks |-> <<>>, requests |-> <<req>>]
            ELSE IF ~resp.decodes
            THEN [err |-> "decode search response", tracks |-> <<>>, requests |-> <<req>>]
            ELSE [err |-> "",
                  tracks |-> takeTracks(resp.result, 1, searchLimit(limit)),
                  requests |-> <<req>>]

\* ---------------------------------------------------------------- GetTrack

\* A buggy GetTrack without the check of the id.
GetTrackNoCheck(id, resp) ==
    LET req == Request(apiBase \o "/tracks/" \o id, <<>>, 0)
    IN IF resp.neterr
       THEN [err |-> "transport", track |-> NoTrack, requests |-> <<req>>]
       ELSE IF resp.status # StatusOK
       THEN [err |-> "get track failed", track |-> NoTrack, requests |-> <<req>>]
       ELSE IF ~resp.decodes
       THEN [err |-> "decode track response", track |-> NoTrack, requests |-> <<req>>]
       ELSE IF Len(resp.result) = 0
       THEN [err |-> "track not found", track |-> NoTrack, requests |-> <<req>>]
       ELSE [err |-> "", track |-> mapTrack(resp.result[1]), requests |-> <<req>>]

\* APIClient.GetTrack
GetTrack(id, resp) ==
    IF id = ""
    THEN [err |-> "track id is empty", track |-> NoTrack, requests |-> <<>>]
    ELSE LET req == Request(apiBase \o "/tracks/" \o id, <<>>, 0)
         IN IF resp.neterr
            THEN [err |-> "transport", track |-> NoTrack, requests |-> <<req>>]
            ELSE IF resp.status # StatusOK
            THEN [err |-> "get track failed", track |-> NoTrack, requests |-> <<req>>]
            ELSE IF ~resp.decodes
            THEN [err |-> "decode track response", track |-> NoTrack, requests |-> <<req>>]
            ELSE IF Len(resp.result) = 0
            THEN [err |-> "track not found", track |-> NoTrack, requests |-> <<req>>]
            ELSE [err |-> "", track |-> mapTrack(resp.result[1]), requests |-> <<req>>]

\* -------------------------------------------- GetDownloadURL: download-info

\* downloadInfoDTO
Info(url, codec, bitrate) == [URL |-> url, Codec |-> codec, Bitrate |-> bitrate]

NoInfo == Info("", <<>>, 0)

mp3 == <<"m", "p", "3">>

\* The loop of pickDownloadInfo: the first entry whose codec folds to "mp3",
\* as a one-element sequence, or <<>> when the loop runs off the end.
RECURSIVE firstMP3(_)
firstMP3(items) ==
    IF items = <<>> THEN <<>>
    ELSE IF EqualFold(Head(items).Codec, mp3) THEN <<Head(items)>>
    ELSE firstMP3(Tail(items))

\* A buggy pickDownloadInfo that compares the codec case-sensitively.
pickDownloadInfoExact(items) ==
    IF Len(items) = 0 THEN NoInfo
    ELSE IF \E i \in 1..Len(items) : items[i].Codec = mp3
         THEN items[CHOOSE i \in 1..Len(items) :
                       /\ items[i].Codec = mp3
                       /\ \A j \in 1..(i - 1) : items[j].Codec # mp3]
         ELSE items[1]

\* pickDownloadInfo chooses the download info to use (prefers mp3).
pickDownloadInfo(items) ==
    IF Len(items) = 0 THEN NoInfo
    ELSE IF firstMP3(items) # <<>> THEN firstMP3(items)[1]
    ELSE items[1]

\* APIClient.GetDownloadURL up to the choice of the indirection URL.
\* picked is the local variable info once pickDownloadInfo has run.
downloadInfo(id, resp) ==
    IF id = ""
    THEN [err |-> "track id is empty", info |-> NoInfo, picked |-> NoInfo, requests |-> <<>>]
    ELSE LET req == Request(apiBase \o "/tracks/" \o id \o "/download-info", <<>>, 0)
             fail(e) == [err |-> e, info |-> NoInfo, picked |-> NoInfo, requests |-> <<req>>]
         IN IF resp.neterr THEN fail("transport")
            ELSE IF resp.status # StatusOK THEN fail("download-info failed")
            ELSE IF ~resp.decodes THEN fail("decode download-info")
            ELSE IF Len(resp.result) = 0 THEN fail("download url not found")
            ELSE IF pickDownloadInfo(resp.result).URL = ""
            THEN [err |-> "download url not found", info |-> NoInfo,
                  picked |-> pickDownloadInfo(resp.result), requests |-> <<req>>]
            ELSE [err |-> "", info |-> pickDownloadInfo(resp.result),
                  picked |-> pickDownloadInfo(resp.result), requests |-> <<req>>]

\* ------------------------------------- GetDownloadURL: indirection fetch

\* The body of the indirection response as the two decoders see it:
\* json.Unmarshal into {Src} and xml.Unmarshal into {Host, Path, TS, S}.
\* Both read the same bytes, so a body may satisfy both, one or neither.
Body(empty, jsonOK, src, xmlOK, host, path, ts, s) ==
    [empty |-> empty, jsonOK |-> jsonOK, src |-> src,
     xmlOK |-> xmlOK, host |-> host, path |-> path, ts |-> ts, s |-> s]

\* The response to GET <downloadInfoUrl>: transport error or status, body,
\* Location header and resp.Request.URL (hasRequest is FALSE for a nil
\* Request or URL, which only a substituted HTTPClient produces).
InfoResponse(neterr, status, body, location, hasRequest, requestURL) ==
    [neterr |-> neterr, status |-> status, body |-> body, location |-> location,
     hasRequest |-> hasRequest, requestURL |-> requestURL]

\* parseDownloadInfoXML builds the final mp3 URL from the XML payload.
parseDownloadInfoXML(body, trackID) ==
    IF body.empty THEN [err |-> "empty xml body", url |-> ""]
    ELSE IF ~body.xmlOK THEN [err |-> "xml", url |-> ""]
    ELSE IF body.host = "" \/ body.path = "" \/ body.ts = "" \/ body.s = ""
    THEN [err |-> "incomplete xml fields", url |-> ""]
    ELSE [err |-> "",
          url |-> "https://" \o body.host \o "/get-mp3/" \o body.s \o "/"
                  \o body.ts \o body.path
                  \o (IF trackID # "" THEN "?track-id=" \o trackID ELSE "")]

\* A buggy resolver that tries the XML shape before the JSON shape.
resolveXMLFirst(infoURL, trackID, resp) ==
    IF infoURL = ""
    THEN [err |-> "download info url is empty", url |-> "", by |-> "none", requests |-> <<>>]
    ELSE LET req == Request(infoURL, <<>>, 0)
             xml == parseDownloadInfoXML(resp.body, trackID)
         IN IF resp.neterr
            THEN [err |-> "transport", url |-> "", by |-> "none", requests |-> <<req>>]
            ELSE IF xml.err = "" /\ xml.url # ""
            THEN [err |-> "", url |-> xml.url, by |-> "xml", requests |-> <<req>>]
            ELSE IF ~resp.body.empty /\ resp.body.jsonOK /\ resp.body.src # ""
            THEN [err |-> "", url |-> resp.body.src, by |-> "json", requests |-> <<req>>]
            ELSE IF resp.location # ""
            THEN [err |-> "", url |-> resp.location, by |-> "location", requests |-> <<req>>]
            ELSE IF resp.hasRequest
            THEN [err |-> "", url |-> resp.requestURL, by |-> "request", requests |-> <<req>>]
            ELSE [err |-> "cannot resolve download url", url |-> "", by |-> "none",
                  requests |-> <<req>>]

\* A buggy resolver that returns the Location header without checking it.
resolveAnyLocation(infoURL, trackID, resp) ==
    IF infoURL = ""
    THEN [err |-> "download info url is empty", url |-> "", by |-> "none", requests |-> <<>>]
    ELSE LET req == Request(infoURL, <<>>, 0)
             xml == parseDownloadInfoXML(resp.body, trackID)
         IN IF resp.neterr
            THEN [err |-> "transport", url |-> "", by |-> "none", requests |-> <<req>>]
            ELSE IF ~resp.body.empty /\ resp.body.jsonOK /\ resp.body.src # ""
            THEN [err |-> "", url |-> resp.body.src, by |-> "json", requests |-> <<req>>]
            ELSE IF xml.err = "" /\ xml.url # ""
            THEN [err |-> "", url |-> xml.url, by |-> "xml", requests |-> <<req>>]
            ELSE [err |-> "", url |-> resp.location, by |-> "location", requests |-> <<req>>]

\* APIClient.resolveDownloadInfoURL fetches downloadInfoUrl and extracts the
\* final audio URL.  The response status is not looked at before the last
\* return.  by names the return statement taken.
resolveDownloadInfoURL(infoURL, trackID, resp) ==
    IF infoURL = ""
    THEN [err |-> "download info url is empty", url |-> "", by |-> "none", requests |-> <<>>]
    ELSE LET req == Request(infoURL, <<>>, 0)
             xml == parseDownloadInfoXML(resp.body, trackID)
         IN IF resp.neterr
            THEN [err |-> "transport", url |-> "", by |-> "none", requests |-> <<req>>]
            ELSE IF ~resp.body.empty /\ resp.body.jsonOK /\ resp.body.src # ""
            THEN [err |-> "", url |-> resp.body.src, by |-> "json", requests |-> <<req>>]
            ELSE IF xml.err = "" /\ xml.url # ""
            THEN [err |-> "", url |-> xml.url, by |-> "xml", requests |-> <<req>>]
            ELSE IF resp.location # ""
            THEN [err |-> "", url |-> resp.location, by |-> "location", requests |-> <<req>>]
            ELSE IF resp.hasRequest
            THEN [err |-> "", url |-> resp.requestURL, by |-> "request", requests |-> <<req>>]
            ELSE [err |-> "cannot resolve download url", url |-> "", by |-> "none",
                  requests |-> <<req>>]

\* -------------------------------------------------------------- filesystem

\* A path is the sequence of its components below the root; fs is a set of
\* entries [path, dir, by], by naming the task whose call created the entry
\* ("os" for what exists before the program starts).
Entry(path, dir, by) == [path |-> path, dir |-> dir, by |-> by]

Exists(fs, p) == \E e \in fs : e.path = p
IsDir(fs, p) == \E e \in fs : e.path = p /\ e.dir
IsFile(fs, p) == \E e \in fs : e.path = p /\ ~e.dir

IsPrefix(a, b) == Len(a) <= Len(b) /\ SubSeq(b, 1, Len(a)) = a
Prefixes(p) == {SubSeq(p, 1, n) : n \in 0..Len(p)}

\* strings.Split(name, "/") on a character sequence.
RECURSIVE SplitFrom(_, _)
SplitFrom(s, cur) ==
    IF s = <<>> THEN <<cur>>
    ELSE IF Head(s) = "/" THEN <<cur>> \o SplitFrom(Tail(s), <<>>)
    ELSE SplitFrom(Tail(s), Append(cur, Head(s)))

SplitPath(s) == SplitFrom(s, <<>>)

\* filepath.Clean of a rooted path given by its raw components: empty and
\* "." components vanish, ".." removes the component before it (none at the
\* root).
RECURSIVE CleanFrom(_, _)
CleanFrom(acc, rest) ==
    IF rest = <<>> THEN acc
    ELSE IF Head(rest) = <<>> \/ Head(rest) = <<".">> THEN CleanFrom(acc, Tail(rest))
    ELSE IF Head(rest) = <<".", ".">>
         THEN CleanFrom(IF acc = <<>> THEN acc ELSE SubSeq(acc, 1, Len(acc) - 1), Tail(rest))
    ELSE CleanFrom(Append(acc, Head(rest)), Tail(rest))

\* filepath.Join(dir, name) for a rooted dir and a non-empty name.
JoinPath(dir, name) == CleanFrom(<<>>, dir \o SplitPath(name))

\* filepath.Dir of a cleaned rooted path.
Dir(p) == IF p = <<>> THEN <<>> ELSE SubSeq(p, 1, Len(p) - 1)

\* os.MkdirAll fails when a component of the path is a file.
MkdirAllOK(fs, p) == \A q \in Prefixes(p) : ~IsFile(fs, q)
MkdirAll(fs, p, by) ==
    fs \cup {Entry(q, TRUE, by) : q \in {r \in Prefixes(p) : ~Exists(fs, r)}}

\* os.RemoveAll removes the path and everything below it.
RemoveAll(fs, p) == {e \in fs : ~IsPrefix(p, e.path)}

\* os.Create needs the parent directory and a path that is not a directory;
\* it creates the file or truncates the one there.
CreateOK(fs, p) == IsDir(fs, Dir(p)) /\ ~IsDir(fs, p) /\ p # <<>>
Create(fs, p, by) == {e \in fs : e.path # p} \cup {Entry(p, FALSE, by)}

\* ensureDir: MkdirAll unless the directory is "" or "." (never so for a
\* rooted path).
ensureDirOK(fs, dir) == MkdirAllOK(fs, dir)
ensureDir(fs, dir, by) == IF MkdirAllOK(fs, dir) THEN MkdirAll(fs, dir, by) ELSE fs

\* ---------------------------------------------------------- DownloadToFile

\* The response to GET <final URL>: transport error or status, and whether
\* streaming the body fails part-way (network failure, deadline).
FileResponse(neterr, status, copyErr) ==
    [neterr |-> neterr, status |-> status, copyErr |-> copyErr]

\* APIClient.DownloadToFile streams the content into destPath.  A failed
\* io.Copy leaves the (partial) file in place.
DownloadToFile(url, dest, resp, fs, by) ==
    IF url = ""
    THEN [err |-> "download url is empty", fs |-> fs, requests |-> <<>>]
    ELSE LET req == Request(url, <<>>, 0)
             made == ensureDir(fs, Dir(dest), by)
         IN IF resp.neterr
            THEN [err |-> "transport", fs |-> fs, requests |-> <<req>>]
            ELSE IF resp.status # StatusOK
            THEN [err |-> "download failed", fs |-> fs, requests |-> <<req>>]
            ELSE IF ~ensureDirOK(fs, Dir(dest))
            THEN [err |-> "mkdir", fs |-> fs, requests |-> <<req>>]
            ELSE IF ~CreateOK(made, dest)
            THEN [err |-> "create", fs |-> made, requests |-> <<req>>]
            ELSE IF resp.copyErr
            THEN [err |-> "copy", fs |-> Create(made, dest, by), requests |-> <<req>>]
            ELSE [err |-> "", fs |-> Create(made, dest, by), requests |-> <<req>>]

\* ------------------------------------------------------------ service layer

\* The file name DownloadTrack derives: "{artists} - {title}.mp3".
fileName(meta) ==
    ArtistsString(meta) \o <<" ", "-", " ">> \o meta.Title \o <<".", "m", "p", "3">>

\* os.TempDir()
TempRoot == << <<"t", "m", "p">> >>

\* The names os.MkdirTemp("", "ym-bot-*") may draw.
TempNames == { <<"ym-bot-1">>, <<"ym-bot-2">> }

\* The names os.MkdirTemp can still take: those not in use.
freeTempNames(fs) == {n \in TempNames : ~Exists(fs, Append(TempRoot, n))}

\* What a service operation returns: (Track, path or url, error).
Ret(track, path, url, err) == [track |-> track, path |-> path, url |-> url, err |-> err]

NoRet == Ret(NoTrack, <<>>, "", "")

\* ------------------------------------------------------------ remote inputs

Procs == {"p1", "p2"}

IDs == {"", "42"}

\* Payload entries of the track endpoints: a plain track; a title with a
\* path separator and an empty artist name; an entry without id, title or
\* artists; an artist name that starts with "../".
TrackDTOs ==
    { DTO("42", <<"T">>, 185000, << <<"A">> >>, << <<"L">>, <<"K">> >>, <<"c", "/", "%", "%">>),
      DTO("42", <<"a", "/", "b">>, 1999, << <<"A">>, <<>>, <<"B">> >>, <<>>, <<>>),
      DTO("", <<>>, 0, <<>>, <<>>, <<>>),
      DTO("7", <<"T">>, 1000, << <<".", ".", "/", "x">> >>, <<>>, <<>>) }

TrackLists ==
    {<<>>} \cup {<<d>> : d \in TrackDTOs}
           \cup {<<d, e>> : d \in {DTO("", <<>>, 0, <<>>, <<>>, <<>>)}, e \in TrackDTOs}

\* Statuses the remote answers with.
Statuses == {StatusOK, 404}

JSONResponses(payloads) ==
    {JSONResponse(TRUE, 0, FALSE, <<>>), JSONResponse(FALSE, 404, FALSE, <<>>),
     JSONResponse(FALSE, StatusOK, FALSE, <<>>)}
    \cup {JSONResponse(FALSE, StatusOK, TRUE, r) : r \in payloads}

TrackResponses == JSONResponses(TrackLists)

\* A search page of n entries; in variant 2 the second entry has no id.
PageDTO(i, v) ==
    DTO(IF v = 2 /\ i = 2 THEN "" ELSE ToString(i), <<"T">>, 1000 * i + 999,
        << <<"A">> >>, <<>>, <<>>)

SearchPages == {[i \in 1..n |-> PageDTO(i, v)] : n \in 0..MaxPage, v \in {1, 2}}

SearchResponses == JSONResponses(SearchPages)

Queries == {<<>>, <<" ">>, <<" ", "\t">>, <<"q">>, <<" ", "q", " ">>}

Codecs == { mp3, <<"M", "P", "3">>, <<"a", "a", "c">>, <<"m", "p">>, <<>> }

\* Download-info listings of n candidates: the i-th has indirection URL
\* "I<i>", except candidate e (if any), whose URL is empty.
InfoListsOf(maxLen) ==
    UNION {{[i \in 1..n |-> Info(IF i = e THEN "" ELSE "I" \o ToString(i), c[i], 192)] :
              c \in [1..n -> Codecs], e \in 0..n} : n \in 0..maxLen}

InfoLists == InfoListsOf(MaxCands)

DownloadInfoResponses == JSONResponses(InfoLists)

\* Bodies of the indirection response: empty; JSON with src; JSON without
\* src; complete XML; XML with a field missing; a body both decoders accept;
\* a body neither accepts.
Bodies ==
    { Body(TRUE, FALSE, "", FALSE, "", "", "", ""),
      Body(FALSE, TRUE, "A", FALSE, "", "", "", ""),
      Body(FALSE, TRUE, "", FALSE, "", "", "", ""),
      Body(FALSE, FALSE, "", TRUE, "h", "/p", "123", "sig"),
      Body(FALSE, FALSE, "", TRUE, "h", "/p", "", "sig"),
      Body(FALSE, FALSE, "", TRUE, "", "/p", "123", "sig"),
      Body(FALSE, FALSE, "", TRUE, "h", "", "123", "sig"),
      Body(FALSE, FALSE, "", TRUE, "h", "/p", "123", ""),
      Body(FALSE, TRUE, "A", TRUE, "h", "/p", "123", "sig"),
      Body(FALSE, TRUE, "", TRUE, "h", "/p", "123", "sig"),
      Body(FALSE, FALSE, "", FALSE, "", "", "", "") }

\* Responses to GET infoURL.  A present resp.Request.URL is the URL that
\* was fetched: infoURL itself, or "R" after transport-level redirects.
InfoResponses(infoURL) ==
    {InfoResponse(TRUE, 0, Body(TRUE, FALSE, "", FALSE, "", "", "", ""), "", FALSE, "")}
    \cup {InfoResponse(FALSE, st, b, loc, TRUE, u) :
            st \in Statuses, b \in Bodies, loc \in {"", "L"}, u \in {infoURL, "R"}}
    \cup {InfoResponse(FALSE, st, b, loc, FALSE, "") :
            st \in Statuses, b \in Bodies, loc \in {"", "L"}}

\* The remote answers the tasks of the bot see: listings of at most one
\* candidate, and an indirection response with a JSON src or with a body in
\* neither shape, no Location header, under either status.
TaskInfoListings == JSONResponses(InfoListsOf(1))

TaskInfoResponses(infoURL) ==
    {r \in InfoResponses(infoURL) :
        /\ r.location = ""
        /\ r.requestURL \in {"", infoURL}
        /\ r.body \in {Body(FALSE, TRUE, "A", FALSE, "", "", "", ""),
                       Body(FALSE, FALSE, "", FALSE, "", "", "", "")}}

FileResponses ==
    {FileResponse(TRUE, 0, FALSE), FileResponse(FALSE, 404, FALSE),
     FileResponse(FALSE, StatusOK, TRUE), FileResponse(FALSE, StatusOK, FALSE)}

\* -------------------------------------------------------------------- state

VARIABLES
    pc,       \* where each task stands
    op,       \* "callback" (handleCallback -> DownloadTrack) or "stream" (StreamURL)
    id,       \* the track id the task works on
    meta,     \* DownloadTrack/StreamURL: meta
    info,     \* GetDownloadURL: the chosen download info's URL
    url,      \* DownloadTrack/StreamURL: downloadURL
    tmpDir,   \* DownloadTrack: tmpDir
    dest,     \* DownloadTrack: dest
    ret,      \* what the service operation returned
    sent,     \* handleCallback: "none", "ok" or "failed" for b.api.Send
    log,      \* the steps each task performed, in order
    failed,   \* whether an HTTP exchange of the task failed (error or non-200)
    deadline, \* the deadline of the task's current context
    started,  \* when handleCallback derived its context
    retrStart, \* when DownloadTrack derived the retrieval context
    late,     \* whether a request of the task ran under a context that was done
    now,      \* the clock, in seconds
    cancelled, \* whether the context Bot.Start runs under is cancelled
    fs,       \* the filesystem
    call,     \* direct use of the client: the call made last
    out       \* and what it returned

vars == <<pc, op, id, meta, info, url, tmpDir, dest, ret, sent, log, failed,
          deadline, started, retrStart, late, now, cancelled, fs, call, out>>

taskVars == <<pc, op, id, meta, info, url, tmpDir, dest, ret, sent, log, failed,
              deadline, started, retrStart, late>>

timeVars == <<now, cancelled>>

Init ==
    /\ pc = [p \in Procs |-> "idle"]
    /\ op = [p \in Procs |-> "none"]
    /\ id = [p \in Procs |-> ""]
    /\ meta = [p \in Procs |-> NoTrack]
    /\ info = [p \in Procs |-> ""]
    /\ url = [p \in Procs |-> ""]
    /\ tmpDir = [p \in Procs |-> <<>>]
    /\ dest = [p \in Procs |-> <<>>]
    /\ ret = [p \in Procs |-> NoRet]
    /\ sent = [p \in Procs |-> "none"]
    /\ log = [p \in Procs |-> <<>>]
    /\ failed = [p \in Procs |-> FALSE]
    /\ deadline = [p \in Procs |-> NoDeadline]
    /\ started = [p \in Procs |-> 0]
    /\ retrStart = [p \in Procs |-> 0]
    /\ late = [p \in Procs |-> FALSE]
    /\ now = 0
    /\ cancelled = FALSE
    /\ fs = {Entry(<<>>, TRUE, "os"), Entry(TempRoot, TRUE, "os")}
    /\ call = [op |-> "none"]
    /\ out = [err |-> ""]

\* ------------------------------------------------- tasks: bot and service

\* cb.Data as prefix and remainder; HasPrefix compares the prefix.
CallbackDatas ==
    {[prefix |-> "", rest |-> ""], [prefix |-> "other:", rest |-> "42"],
     [prefix |-> callbackPrefix, rest |-> ""], [prefix |-> callbackPrefix, rest |-> "42"]}

\* ctx.Done() of the task's context: the parent is cancelled or the deadline
\* has come.
CtxDone(p) == cancelled \/ now >= deadline[p]

\* Whether the step's request ran under a context that was done.
Late(p, r) == [late EXCEPT ![p] = @ \/ (r.requests # <<>> /\ CtxDone(p))]

\* A step's record in the task's log, one entry per request it issued, and
\* its failure flag.
Logged(p, step, r) ==
    [log EXCEPT ![p] = @ \o [i \in 1..Len(r.requests) |-> step]]

Failed(p, r, resp) ==
    [failed EXCEPT ![p] = @ \/ (r.requests # <<>> /\ (resp.neterr \/ resp.status # StatusOK))]

\* Bot.handleCallback up to the call of DownloadTrack: a callback without
\* the download prefix is dropped.
HandleCallback(p) ==
    /\ pc[p] = "idle"
    /\ \E data \in CallbackDatas :
         /\ op' = [op EXCEPT ![p] = "callback"]
         /\ IF (data.prefix = "" /\ data.rest = "") \/ data.prefix # callbackPrefix
            THEN /\ pc' = [pc EXCEPT ![p] = "done"]
                 /\ id' = id
            ELSE /\ pc' = [pc EXCEPT ![p] = "GetTrack"]
                 /\ id' = [id EXCEPT ![p] = data.rest]
         /\ IF (data.prefix = "" /\ data.rest = "") \/ data.prefix # callbackPrefix
            THEN UNCHANGED <<deadline, started>>
            ELSE /\ deadline' = [deadline EXCEPT ![p] = WithTimeout(@, now, callbackTimeout)]
                 /\ started' = [started EXCEPT ![p] = now]
    /\ UNCHANGED <<meta, info, url, tmpDir, dest, ret, sent, log, failed, fs, call, out>>
    /\ UNCHANGED <<retrStart, late, timeVars>>

\* A caller (the inline-query handler) enters Service.StreamURL.
StartStream(p) ==
    /\ pc[p] = "idle"
    /\ \E i \in IDs : id' = [id EXCEPT ![p] = i]
    /\ op' = [op EXCEPT ![p] = "stream"]
    /\ pc' = [pc EXCEPT ![p] = "GetTrack"]
    /\ UNCHANGED <<meta, info, url, tmpDir, dest, ret, sent, log, failed, fs, call, out>>
    /\ UNCHANGED <<deadline, started, retrStart, late, timeVars>>

\* StreamURL/DownloadTrack: meta, err := s.client.GetTrack(ctx, id)
GetTrackStep(p) ==
    /\ pc[p] = "GetTrack"
    /\ \E resp \in TrackResponses :
         LET r == GetTrack(id[p], resp)
         IN /\ CtxDone(p) => resp.neterr
            /\ late' = Late(p, r)
            /\ log' = Logged(p, "GetTrack", r)
            /\ failed' = Failed(p, r, resp)
            /\ IF r.err # ""
               THEN /\ ret' = [ret EXCEPT ![p] = Ret(NoTrack, <<>>, "", "get track meta")]
                    /\ pc' = [pc EXCEPT ![p] = "done"]
                    /\ meta' = meta
               ELSE /\ meta' = [meta EXCEPT ![p] = r.track]
                    /\ pc' = [pc EXCEPT ![p] = "DownloadInfo"]
                    /\ ret' = ret
    /\ UNCHANGED <<op, id, info, url, tmpDir, dest, sent, fs, call, out>>
    /\ UNCHANGED <<deadline, started, retrStart, timeVars>>

\* GetDownloadURL, first request: the download-info listing and the choice
\* of the candidate.
DownloadInfoStep(p) ==
    /\ pc[p] = "DownloadInfo"
    /\ \E resp \in TaskInfoListings :
         LET r == downloadInfo(id[p], resp)
         IN /\ CtxDone(p) => resp.neterr
            /\ late' = Late(p, r)
            /\ log' = Logged(p, "DownloadInfo", r)
            /\ failed' = Failed(p, r, resp)
            /\ IF r.err # ""
               THEN /\ ret' = [ret EXCEPT ![p] = Ret(NoTrack, <<>>, "", "get download url")]
                    /\ pc' = [pc EXCEPT ![p] = "done"]
                    /\ info' = info
               ELSE /\ info' = [info EXCEPT ![p] = r.info.URL]
                    /\ pc' = [pc EXCEPT ![p] = "Resolve"]
                    /\ ret' = ret
    /\ UNCHANGED <<op, id, meta, url, tmpDir, dest, sent, fs, call, out>>
    /\ UNCHANGED <<deadline, started, retrStart, timeVars>>

\* A buggy resolution step that does not return on an error: the call goes
\* on without a URL.
ResolveStepGoOn(p) ==
    /\ pc[p] = "Resolve"
    /\ \E resp \in TaskInfoResponses(info[p]) :
         LET r == resolveDownloadInfoURL(info[p], id[p], resp)
         IN /\ CtxDone(p) => resp.neterr
            /\ late' = Late(p, r)
            /\ log' = Logged(p, "Indirection", r)
            /\ failed' = Failed(p, r, resp)
            /\ url' = [url EXCEPT ![p] = r.url]
            /\ IF op[p] = "stream"
               THEN /\ ret' = [ret EXCEPT ![p] = Ret(meta[p], <<>>, r.url, "")]
                    /\ pc' = [pc EXCEPT ![p] = "done"]
               ELSE /\ pc' = [pc EXCEPT ![p] = "MkdirTemp"]
                    /\ ret' = ret
    /\ UNCHANGED <<op, id, meta, info, tmpDir, dest, sent, fs, call, out>>
    /\ UNCHANGED <<deadline, started, retrStart, timeVars>>

\* GetDownloadURL, second request: resolveDownloadInfoURL.  StreamURL
\* returns here; DownloadTrack goes on to the temporary directory.
ResolveStep(p) ==
    /\ pc[p] = "Resolve"
    /\ \E resp \in TaskInfoResponses(info[p]) :
         LET r == resolveDownloadInfoURL(info[p], id[p], resp)
         IN /\ CtxDone(p) => resp.neterr
            /\ late' = Late(p, r)
            /\ log' = Logged(p, "Indirection", r)
            /\ failed' = Failed(p, r, resp)
            /\ IF r.err # ""
               THEN /\ ret' = [ret EXCEPT ![p] = Ret(NoTrack, <<>>, "", "get download url")]
                    /\ pc' = [pc EXCEPT ![p] = "done"]
                    /\ url' = url
               ELSE IF op[p] = "stream"
               THEN /\ ret' = [ret EXCEPT ![p] = Ret(meta[p], <<>>, r.url, "")]
                    /\ pc' = [pc EXCEPT ![p] = "done"]
                    /\ url' = [url EXCEPT ![p] = r.url]
               ELSE /\ url' = [url EXCEPT ![p] = r.url]
                    /\ pc' = [pc EXCEPT ![p] = "MkdirTemp"]
                    /\ ret' = ret
    /\ UNCHANGED <<op, id, meta, info, tmpDir, dest, sent, fs, call, out>>
    /\ UNCHANGED <<deadline, started, retrStart, timeVars>>

\* DownloadTrack: tmpDir, err := os.MkdirTemp("", "ym-bot-*"), then the
\* destination path and the context of the retrieval, derived from the
\* caller's.  MkdirTemp fails when the temporary root is missing, and may
\* fail for reasons outside the program; it does not look at the context.
MkdirTempStep(p) ==
    /\ pc[p] = "MkdirTemp"
    /\ \/ /\ ret' = [ret EXCEPT ![p] = Ret(NoTrack, <<>>, "", "temp dir")]
          /\ pc' = [pc EXCEPT ![p] = "done"]
          /\ log' = [log EXCEPT ![p] = Append(@, "MkdirTemp")]
          /\ UNCHANGED <<tmpDir, dest, fs, deadline, retrStart>>
       \/ /\ IsDir(fs, TempRoot)
          /\ \E n \in freeTempNames(fs) :
               /\ fs' = fs \cup {Entry(Append(TempRoot, n), TRUE, p)}
               /\ tmpDir' = [tmpDir EXCEPT ![p] = Append(TempRoot, n)]
               /\ dest' = [dest EXCEPT ![p] = JoinPath(Append(TempRoot, n), fileName(meta[p]))]
          /\ deadline' = [deadline EXCEPT ![p] = WithTimeout(@, now, downloadTimeout)]
          /\ retrStart' = [retrStart EXCEPT ![p] = now]
          /\ pc' = [pc EXCEPT ![p] = "DownloadToFile"]
          /\ log' = [log EXCEPT ![p] = Append(@, "MkdirTemp")]
          /\ ret' = ret
    /\ UNCHANGED <<op, id, meta, info, url, sent, failed, call, out>>
    /\ UNCHANGED <<started, late, timeVars>>

\* A buggy retrieval step that returns the error without removing tmpDir.
DownloadToFileStepNoCleanup(p) ==
    /\ pc[p] = "DownloadToFile"
    /\ \E resp \in FileResponses :
         LET r == DownloadToFile(url[p], dest[p], resp, fs, p)
         IN /\ CtxDone(p) => resp.neterr \/ resp.copyErr
            /\ late' = Late(p, r)
            /\ log' = Logged(p, "Retrieve", r)
            /\ failed' = Failed(p, r, resp)
            /\ fs' = r.fs
            /\ IF r.err # ""
               THEN /\ ret' = [ret EXCEPT ![p] = Ret(NoTrack, <<>>, "", "download")]
                    /\ pc' = [pc EXCEPT ![p] = "done"]
               ELSE /\ ret' = [ret EXCEPT ![p] = Ret(meta[p], dest[p], "", "")]
                    /\ pc' = [pc EXCEPT ![p] = "Send"]
    /\ UNCHANGED <<op, id, meta, info, url, tmpDir, dest, sent, call, out>>
    /\ UNCHANGED <<deadline, started, retrStart, timeVars>>

\* DownloadTrack: s.client.DownloadToFile under the 60 s deadline; on error
\* os.RemoveAll(tmpDir) and the error, else (meta, dest, nil).
DownloadToFileStep(p) ==
    /\ pc[p] = "DownloadToFile"
    /\ \E resp \in FileResponses :
         LET r == DownloadToFile(url[p], dest[p], resp, fs, p)
         IN /\ CtxDone(p) => resp.neterr \/ resp.copyErr
            /\ late' = Late(p, r)
            /\ log' = Logged(p, "Retrieve", r)
            /\ failed' = Failed(p, r, resp)
            /\ IF r.err # ""
               THEN /\ fs' = RemoveAll(r.fs, tmpDir[p])
                    /\ ret' = [ret EXCEPT ![p] = Ret(NoTrack, <<>>, "", "download")]
                    /\ pc' = [pc EXCEPT ![p] = "done"]
               ELSE /\ fs' = r.fs
                    /\ ret' = [ret EXCEPT ![p] = Ret(meta[p], dest[p], "", "")]
                    /\ pc' = [pc EXCEPT ![p] = "Send"]
    /\ UNCHANGED <<op, id, meta, info, url, tmpDir, dest, sent, call, out>>
    /\ UNCHANGED <<deadline, started, retrStart, timeVars>>

\* handleCallback after a successful DownloadTrack: b.api.Send(audio), which
\* succeeds or fails, then the deferred os.RemoveAll(filepath.Dir(path)).
SendStep(p) ==
    /\ pc[p] = "Send"
    /\ \E ok \in BOOLEAN : sent' = [sent EXCEPT ![p] = IF ok THEN "ok" ELSE "failed"]
    /\ fs' = RemoveAll(fs, Dir(ret[p].path))
    /\ pc' = [pc EXCEPT ![p] = "done"]
    /\ UNCHANGED <<op, id, meta, info, url, tmpDir, dest, ret, log, failed, call, out>>
    /\ UNCHANGED <<deadline, started, retrStart, late, timeVars>>

Next ==
    \E p \in Procs :
        \/ HandleCallback(p)
        \/ StartStream(p)
        \/ GetTrackStep(p)
        \/ DownloadInfoStep(p)
        \/ ResolveStep(p)
        \/ MkdirTempStep(p)
        \/ DownloadToFileStep(p)
        \/ SendStep(p)

Spec == Init /\ [][Next]_vars

\* ------------------------------------------------------- downloads in time
\* One download with the clock running and the bot's context cancellable.
\* A request made with http.NewRequestWithContext ends with an error as soon
\* as its context is done, so the clock does not pass the deadline of a task
\* that is inside a request, nor advance once that context is cancelled.

TimedProcs == {"p1"}

InRequest(p) == pc[p] \in {"GetTrack", "DownloadInfo", "Resolve", "DownloadToFile"}

RECURSIVE MinOf(_)
MinOf(S) ==
    LET x == CHOOSE y \in S : TRUE
    IN IF S = {x} THEN x ELSE Min(x, MinOf(S \ {x}))

Tick ==
    /\ now < MaxTime
    /\ \A p \in Procs : InRequest(p) => ~CtxDone(p)
    /\ now' = MinOf({now + TickSeconds, MaxTime}
                     \cup {deadline[p] : p \in {q \in Procs : InRequest(q)}})
    /\ UNCHANGED <<taskVars, cancelled, fs, call, out>>

\* The context passed to Bot.Start is cancelled.
Cancel ==
    /\ ~cancelled
    /\ cancelled' = TRUE
    /\ UNCHANGED <<taskVars, now, fs, call, out>>

NextDeadline ==
    \/ Tick
    \/ Cancel
    \/ \E p \in TimedProcs :
        \/ HandleCallback(p)
        \/ GetTrackStep(p)
        \/ DownloadInfoStep(p)
        \/ ResolveStep(p)
        \/ MkdirTempStep(p)
        \/ DownloadToFileStep(p)
        \/ SendStep(p)

SpecDeadline == Init /\ [][NextDeadline]_vars

\* ------------------------------------------------ direct use of the client
\* One call of a client operation per behaviour, with every input and every
\* remote answer of the sets above.

\* Destinations a caller of DownloadToFile passes.
ClientDests == {Append(TempRoot, <<"f">>), TempRoot \o << <<"d">>, <<"f">> >>}

CallSearchTracks ==
    /\ call.op = "none"
    /\ \E query \in Queries, limit \in -1..MaxLimit, offset \in -1..MaxOffset,
          resp \in SearchResponses :
         /\ call' = [op |-> "SearchTracks", query |-> query, limit |-> limit,
                     offset |-> offset, resp |-> resp]
         /\ out' = SearchTracks(query, limit, offset, resp)
    /\ UNCHANGED <<taskVars, timeVars, fs>>

CallGetTrack ==
    /\ call.op = "none"
    /\ \E i \in IDs, resp \in TrackResponses :
         /\ call' = [op |-> "GetTrack", id |-> i, resp |-> resp]
         /\ out' = GetTrack(i, resp)
    /\ UNCHANGED <<taskVars, timeVars, fs>>

\* GetDownloadURL, up to the choice of the candidate.
CallGetDownloadURL ==
    /\ call.op = "none"
    /\ \E i \in IDs, resp \in DownloadInfoResponses :
         /\ call' = [op |-> "downloadInfo", id |-> i, resp |-> resp]
         /\ out' = downloadInfo(i, resp)
    /\ UNCHANGED <<taskVars, timeVars, fs>>

\* GetDownloadURL, continued: the indirection fetch for the chosen candidate.
CallResolve ==
    /\ call.op = "downloadInfo"
    /\ out.err = ""
    /\ \E resp \in InfoResponses(out.info.URL) :
         /\ call' = [op |-> "resolve", id |-> call.id, infoURL |-> out.info.URL,
                     resp |-> resp]
         /\ out' = resolveDownloadInfoURL(out.info.URL, call.id, resp)
    /\ UNCHANGED <<taskVars, timeVars, fs>>

\* DownloadToFile, also on the filesystem earlier downloads left.
CallDownloadToFile ==
    /\ call.op \in {"none", "DownloadToFile"}
    /\ \E u \in {"", "A"}, d \in ClientDests, resp \in FileResponses :
         /\ call' = [op |-> "DownloadToFile", url |-> u, dest |-> d, resp |-> resp,
                     fs |-> fs]
         /\ out' = DownloadToFile(u, d, resp, fs, "client")
         /\ fs' = DownloadToFile(u, d, resp, fs, "client").fs
    /\ UNCHANGED <<taskVars, timeVars>>

ClientNext ==
    \/ CallSearchTracks
    \/ CallGetTrack
    \/ CallGetDownloadURL
    \/ CallResolve
    \/ CallDownloadToFile

SpecClient == Init /\ [][ClientNext]_vars

\* ================================================================== claims

\* ---- C1 ------------------------------------------------------------------
\* The entries the call of task p created in or below its temporary
\* directory (all its entries when it never had one).
OwnTempEntries(p) == {e \in fs : e.by = p /\ IsPrefix(tmpDir[p], e.path)}

DownloadFailed(p) == op[p] = "callback" /\ pc[p] = "done" /\ ret[p].err # ""

\* C1: whenever DownloadTrack has returned an error, whichever step failed,
\* the temporary directory that call created (and anything the call put
\* below it) no longer exists.
C1_NoResidualTempDir ==
    \A p \in Procs : DownloadFailed(p) => OwnTempEntries(p) = {}

\* A download that failed in the retrieval step, after its directory existed.
C1_Witness ==
    \E p \in Procs :
        /\ DownloadFailed(p)
        /\ ret[p].err = "download"
        /\ tmpDir[p] # <<>>
        /\ log[p][Len(log[p])] = "Retrieve"

\* ---- C2 ------------------------------------------------------------------
DownloadSucceeded(p) == op[p] = "callback" /\ pc[p] = "Send" /\ ret[p].err = ""

\* C2: when DownloadTrack succeeds, for every track, the parent of the
\* returned path is the temporary directory the call created, and that
\* directory holds exactly one entry, the file "{artists} - {title}.mp3".
C2_OneFileInTempDir ==
    \A p \in Procs :
        DownloadSucceeded(p) =>
            /\ Dir(ret[p].path) = tmpDir[p]
            /\ {e \in fs : IsPrefix(tmpDir[p], e.path) /\ e.path # tmpDir[p]}
                 = {Entry(Append(tmpDir[p], fileName(ret[p].track)), FALSE, p)}

\* ---- C3 ------------------------------------------------------------------
\* C3: once every handler has returned, no temporary directory created by
\* any download remains, whether sending the audio succeeded or failed.
C3_CallerRemovesTempDir ==
    (\A p \in Procs : pc[p] = "done") =>
        \A p \in Procs : ~\E e \in fs : e.dir /\ e.by = p /\ e.path = tmpDir[p]

\* ---- C6 ------------------------------------------------------------------
Returned(p) == pc[p] \in {"Send", "done"}

\* C6: in StreamURL and DownloadTrack, an HTTP exchange that failed at any
\* step (transport error or non-200 status) makes the operation return an
\* error.
C6_HTTPFailureIsError ==
    \A p \in Procs : (Returned(p) /\ failed[p]) => ret[p].err # ""

\* ---- C4 ------------------------------------------------------------------
\* A state in which resolveDownloadInfoURL got a response (no transport error).
Resolved == call.op = "resolve" /\ ~call.resp.neterr

\* What each payload shape offers for the response of the current call.
JSONHit == ~call.resp.body.empty /\ call.resp.body.jsonOK /\ call.resp.body.src # ""

XMLHit ==
    /\ ~call.resp.body.empty
    /\ call.resp.body.xmlOK
    /\ call.resp.body.host # ""
    /\ call.resp.body.path # ""
    /\ call.resp.body.ts # ""
    /\ call.resp.body.s # ""

\* C4: the shapes are tried on the same response in the order JSON, XML,
\* redirect and the first success decides: a non-empty JSON src is returned
\* even when the body is complete XML too; the XML-assembled URL only when
\* JSON gave no src and all four fields are non-empty; the Location header
\* only when both failed; the final request URL only when Location is
\* absent as well.
C4_ResolutionPriority ==
    Resolved =>
        /\ JSONHit => (out.by = "json" /\ out.url = call.resp.body.src)
        /\ (out.by = "json") => JSONHit
        /\ (out.by = "xml") <=> (~JSONHit /\ XMLHit)
        /\ (out.by = "location") <=>
              (~JSONHit /\ ~XMLHit /\ call.resp.location # "")
        /\ (out.by = "location") => out.url = call.resp.location
        /\ (out.by = "request") <=>
              (~JSONHit /\ ~XMLHit /\ call.resp.location = "" /\ call.resp.hasRequest)
        /\ (out.by = "request") => out.url = call.resp.requestURL

\* A body both decoders accept, with a Location header as well: JSON wins.
C4_Witness ==
    /\ Resolved
    /\ JSONHit
    /\ XMLHit
    /\ call.resp.location # ""
    /\ out.by = "json"
    /\ out.url = "A"

\* ---- C5 ------------------------------------------------------------------
\* C5: GetDownloadURL fails with the resolution error whenever none of the
\* three shapes (JSON src, complete XML, redirect: Location or final request
\* URL) yields a URL, and a URL it returns with success is never empty.
C5_ResolutionError ==
    /\ (Resolved /\ ~JSONHit /\ ~XMLHit /\ call.resp.location = "" /\ ~call.resp.hasRequest)
          => (out.err = "cannot resolve download url" /\ out.url = "")
    /\ (call.op = "resolve" /\ out.err = "") => out.url # ""

\* An indirection response in none of the shapes: the call fails.
C5_Witness ==
    /\ Resolved
    /\ call.resp.body.xmlOK
    /\ ~XMLHit
    /\ out.err = "cannot resolve download url"

\* ---- C7 ------------------------------------------------------------------
\* A codec label that is "mp3" up to the case of its letters.
IsMP3Label(c) ==
    Len(c) = 3 /\ c[1] \in {"m", "M"} /\ c[2] \in {"p", "P"} /\ c[3] = "3"

\* A state in which GetDownloadURL decoded a non-empty candidate list.
Listed ==
    /\ call.op = "downloadInfo"
    /\ call.id # ""
    /\ ~call.resp.neterr
    /\ call.resp.status = StatusOK
    /\ call.resp.decodes
    /\ Len(call.resp.result) > 0

\* C7: for every non-empty candidate list the selection picks the first
\* candidate in listed order whose codec is "mp3" ignoring case, otherwise
\* the first candidate; it picks one for every such list (no error from the
\* selection: the call fails at this point only on an empty URL of the
\* picked candidate).
C7_PickFirstMP3 ==
    Listed =>
        LET items == call.resp.result
            hits == {i \in 1..Len(items) : IsMP3Label(items[i].Codec)}
            k == IF hits = {} THEN 1
                 ELSE CHOOSE i \in hits : \A j \in hits : i <= j
        IN /\ out.picked = items[k]
           /\ (out.err # "") => (out.picked.URL = "")
           /\ (out.err = "") => (out.info = items[k])

\* No candidate before the picked one is mp3; the picked one is "MP3" and is
\* not the first.
C7_Witness ==
    /\ Listed
    /\ Len(call.resp.result) >= 2
    /\ call.resp.result[1].Codec = <<"a", "a", "c">>
    /\ call.resp.result[2].Codec = <<"M", "P", "3">>
    /\ out.err = ""
    /\ out.info = call.resp.result[2]

\* ---- C8 ------------------------------------------------------------------
\* C8: SearchTracks with an empty or whitespace-only query, GetTrack and
\* GetDownloadURL with an empty id, and DownloadToFile with an empty url
\* return an error without issuing an HTTP request; DownloadToFile leaves the
\* filesystem as it was.
C8_ValidationBeforeRequest ==
    /\ (call.op = "SearchTracks"
          /\ \A i \in 1..Len(call.query) : call.query[i] \in {" ", "\t", "\n"})
         => (out.err # "" /\ out.requests = <<>>)
    /\ (call.op \in {"GetTrack", "downloadInfo"} /\ call.id = "")
         => (out.err # "" /\ out.requests = <<>>)
    /\ (call.op = "DownloadToFile" /\ call.url = "")
         => (out.err # "" /\ out.requests = <<>> /\ out.fs = call.fs /\ fs = call.fs)

\* A whitespace-only query was rejected without a request.
C8_Witness ==
    /\ call.op = "SearchTracks"
    /\ call.query = <<" ", "\t">>
    /\ out.err = "query is empty"
    /\ out.requests = <<>>

\* ---- C9 ------------------------------------------------------------------
\* C9: SearchTracks replaces limit <= 0 by 10 and offset < 0 by 0, requests
\* page offset / limit (integer division) and returns the first
\* min(limit, n) entries of the page's n results, in the page's order.
C9_SearchPaging ==
    (call.op = "SearchTracks" /\ out.requests # <<>>) =>
        LET L == IF call.limit <= 0 THEN 10 ELSE call.limit
            O == IF call.offset < 0 THEN 0 ELSE call.offset
            n == Len(call.resp.result)
        IN /\ Len(out.requests) = 1
           /\ out.requests[1].page * L <= O
           /\ O < (out.requests[1].page + 1) * L
           /\ (out.err = "") =>
                 /\ Len(out.tracks) = Min(L, n)
                 /\ \A i \in 1..Len(out.tracks) :
                       out.tracks[i] = mapTrack(call.resp.result[i])

\* A page beyond the first, with more results than the limit.
C9_Witness ==
    /\ call.op = "SearchTracks"
    /\ out.err = ""
    /\ call.limit > 0
    /\ out.requests[1].page >= 2
    /\ Len(call.resp.result) > call.limit
    /\ Len(out.tracks) = call.limit

\* ---- C10 -----------------------------------------------------------------
\* C10: every Track that GetTrack or SearchTracks returns successfully has a
\* non-empty ID, for every payload that decodes.
C10_TrackIDNonEmpty ==
    /\ (call.op = "GetTrack" /\ out.err = "") => out.track.ID # ""
    /\ (call.op = "SearchTracks" /\ out.err = "")
         => \A i \in 1..Len(out.tracks) : out.tracks[i].ID # ""

\* ---- C11 -----------------------------------------------------------------
\* A download that holds a temporary directory: from MkdirTemp until its
\* handler's deferred removal.
HoldsTempDir(p) == op[p] = "callback" /\ pc[p] \in {"DownloadToFile", "Send"}

\* C11: under any interleaving, each download has its own temporary
\* directory, which no other download creates, writes into or removes: while
\* a download holds its directory no other holds the same one, the directory
\* stays in place as that download created it once it has written its file,
\* and nothing in it comes from another download.
C11_DownloadsIsolated ==
    \A p \in Procs :
        HoldsTempDir(p) =>
            /\ \A q \in Procs \ {p} : HoldsTempDir(q) => tmpDir[q] # tmpDir[p]
            /\ \A e \in fs : IsPrefix(tmpDir[p], e.path) => e.by = p
            /\ (pc[p] = "Send" \/ log[p][Len(log[p])] = "MkdirTemp")
                  => Entry(tmpDir[p], TRUE, p) \in fs
            /\ pc[p] = "Send" => Entry(ret[p].path, FALSE, p) \in fs

\* ---- C13 -----------------------------------------------------------------
\* The steps of DownloadTrack in the order of the code; StreamURL has the
\* first three.
Steps == <<"GetTrack", "DownloadInfo", "Indirection", "MkdirTemp", "Retrieve">>

StreamSteps == SubSeq(Steps, 1, 3)

\* The step that produces each error DownloadTrack/StreamURL returns, as
\* the position in Steps of the last step that can have run before it.
LastStepOf(err) ==
    CASE err = "get track meta" -> 1
      [] err = "get download url" -> 3
      [] err = "temp dir" -> 4
      [] err = "download" -> 5

\* C13: the steps a call performed are an initial part of metadata lookup,
\* download-info listing, indirection fetch, temp-directory creation, file
\* retrieval, each at most once (one request per step); a step that returns
\* an error ends the call with no later step performed; a temporary
\* directory (or any file) is made only after metadata lookup and URL
\* resolution succeeded; StreamURL performs only the first three steps and
\* makes no directory or file.
C13_StepOrder ==
    \A p \in Procs :
        /\ Len(log[p]) <= Len(Steps)
        /\ log[p] = SubSeq(Steps, 1, Len(log[p]))
        /\ ret[p].err # "" => pc[p] = "done" /\ Len(log[p]) <= LastStepOf(ret[p].err)
        /\ Len(log[p]) >= 3 => info[p] # ""
        /\ Len(log[p]) >= 4 => url[p] # ""
        /\ (tmpDir[p] # <<>> \/ \E e \in fs : e.by = p) =>
              Len(log[p]) >= 4 /\ url[p] # "" /\ ret[p].err \notin {"get track meta", "get download url"}
        /\ Len(log[p]) = 5 => tmpDir[p] # <<>>
        /\ op[p] = "stream" =>
              /\ Len(log[p]) <= Len(StreamSteps)
              /\ tmpDir[p] = <<>>
              /\ ~ \E e \in fs : e.by = p

\* A download that ran all five steps and failed in the last one, next to a
\* stream that ran its three steps, and no more, with success.
C13_Witness ==
    \E p, q \in Procs :
        /\ op[p] = "callback" /\ pc[p] = "done" /\ log[p] = Steps
        /\ ret[p].err = "download"
        /\ op[q] = "stream" /\ pc[q] = "done" /\ log[q] = StreamSteps
        /\ ret[q].err = "" /\ ret[q].url # ""

\* ---- C12 -----------------------------------------------------------------
\* C12: in DownloadTrack the 60-second deadline covers the file retrieval
\* only.  Through metadata lookup, URL resolution and the creation of the
\* directory the context's deadline is the caller's (90 s after
\* handleCallback derived it); the retrieval's deadline is the earlier of
\* the caller's and 60 s after the retrieval context was derived; the
\* retrieval is never in progress later than that (it takes no time at all
\* when it starts after the caller's deadline), so never more than 60 s
\* after it started; and a request that meets a done context (deadline or
\* cancellation) ends the call with an error.
C12_RetrievalDeadline ==
    \A p \in Procs :
        op[p] = "callback" =>
            /\ pc[p] \in {"GetTrack", "DownloadInfo", "Resolve", "MkdirTemp"} =>
                  deadline[p] = started[p] + callbackTimeout
            /\ pc[p] = "DownloadToFile" =>
                  /\ deadline[p] = Min(started[p] + callbackTimeout,
                                       retrStart[p] + downloadTimeout)
                  /\ now <= retrStart[p] + downloadTimeout
                  /\ now <= started[p] + callbackTimeout \/ now = retrStart[p]
            /\ late[p] => pc[p] = "done" /\ ret[p].err # ""

\* The retrieval was cut off 60 s after it started, with an error, while the
\* caller's deadline still lay ahead and nothing was cancelled.
C12_Witness ==
    \E p \in Procs :
        /\ op[p] = "callback" /\ pc[p] = "done" /\ ret[p].err = "download"
        /\ late[p] /\ ~cancelled
        /\ now = retrStart[p] + downloadTimeout
        /\ now < started[p] + callbackTimeout

=============================================================================
